---- MODULE Spec2Model ----
(***************************************************************************)
(* Model of server.js: the GET /api/commits handler (parameter parsing,    *)
(* validation, query construction, the two concurrent pool queries and the *)
(* response assembly) and the process lifecycle (startup connectivity      *)
(* probe, SIGINT -> pool.end -> process.exit).                             *)
(*                                                                         *)
(* The commits table is a set of rows identified by their created_at       *)
(* timestamp (a natural number); it does not change during a behaviour.    *)
(* Strings that the code parses or interpolates are sequences: page/limit  *)
(* values are sequences of characters, date values are sequences of SQL    *)
(* lexemes, so that parseInt and the template interpolation are computed   *)
(* rather than assumed.                                                    *)
(***************************************************************************)
EXTENDS Integers, Sequences, FiniteSets, TLC

VARIABLES table, nodeEnv, pool, testConn, exited, req, dataQ, countQ, res, hist

vars == <<table, nodeEnv, pool, testConn, exited, req, dataQ, countQ, res, hist>>

\* Largest number of rows of the commits table.
MaxRows == 11

\* Defaults and the cap of the handler.
DefaultPage == 1
DefaultLimit == 10
MaxLimit == 100

\* JavaScript undefined (an absent query parameter) and null.
Undefined == <<"undefined">>
Null == <<"null">>

Min(a, b) == IF a < b THEN a ELSE b

-----------------------------------------------------------------------------
(* parseInt(string), radix 10: leading blanks are skipped, an optional     *)
(* sign is read, then the longest prefix of decimal digits; NaN when that  *)
(* prefix is empty.                                                        *)

Digits == <<"0", "1", "2", "3", "4", "5", "6", "7", "8", "9">>

IsDigit(c) == \E i \in 1..10 : Digits[i] = c

DigitVal(c) == (CHOOSE i \in 1..10 : Digits[i] = c) - 1

RECURSIVE StripBlanks(_)
StripBlanks(s) ==
    IF s # <<>> /\ Head(s) = " " THEN StripBlanks(Tail(s)) ELSE s

RECURSIVE DigitPrefix(_)
DigitPrefix(s) ==
    IF s # <<>> /\ IsDigit(Head(s)) THEN <<Head(s)>> \o DigitPrefix(Tail(s)) ELSE <<>>

RECURSIVE DigitsValue(_)
DigitsValue(ds) ==
    IF ds = <<>> THEN 0
    ELSE 10 * DigitsValue(SubSeq(ds, 1, Len(ds) - 1)) + DigitVal(ds[Len(ds)])

NaN == [nan |-> TRUE, val |-> 0]

ParseInt(raw) ==
    IF raw = Undefined THEN NaN
    ELSE LET s    == StripBlanks(raw)
             neg  == s # <<>> /\ Head(s) = "-"
             body == IF s # <<>> /\ Head(s) \in {"-", "+"} THEN Tail(s) ELSE s
             ds   == DigitPrefix(body)
         IN  IF ds = <<>> THEN NaN
             ELSE [nan |-> FALSE,
                   val |-> IF neg THEN 0 - DigitsValue(ds) ELSE DigitsValue(ds)]

\* parseInt(x) || d : NaN and 0 are falsy.
OrDefault(n, d) == IF n.nan \/ n.val = 0 THEN d ELSE n.val

\* A JavaScript string used as a condition: undefined and "" are falsy.
Truthy(s) == s # Undefined /\ s # <<>>

\* The decimal digits of a natural number: COUNT(*) arrives as a string.
RECURSIVE DigitsOf(_)
DigitsOf(n) ==
    IF n < 10 THEN <<Digits[n + 1]>>
    ELSE DigitsOf(n \div 10) \o <<Digits[(n % 10) + 1]>>

-----------------------------------------------------------------------------
(* Query construction.  A query text is kept as its interpolated parts:   *)
(* the WHERE clause as a sequence of SQL lexemes (the date values are      *)
(* spliced into it between quote lexemes, as the template literal does)    *)
(* and the two numbers of LIMIT / OFFSET.                                  *)

WhereClause(startDate, endDate) ==
    IF Truthy(startDate) /\ Truthy(endDate)
    THEN <<"WHERE", "created_at", "BETWEEN", "'">> \o startDate
             \o <<"'", "::timestamptz", "AND", "'">> \o endDate
             \o <<"'", "::timestamptz">>
    ELSE IF Truthy(startDate)
    THEN <<"WHERE", "created_at", ">=", "'">> \o startDate \o <<"'", "::timestamptz">>
    ELSE IF Truthy(endDate)
    THEN <<"WHERE", "created_at", "<=", "'">> \o endDate \o <<"'", "::timestamptz">>
    ELSE <<>>

\* OFFSET of the data query.
QueryOffset(page, limit) == page * limit

Query(page, limit, startDate, endDate) ==
    [where  |-> WhereClause(startDate, endDate),
     limit  |-> limit,
     offset |-> QueryOffset(page, limit),
     params |-> <<>>]

CountQuery(startDate, endDate) ==
    [where  |-> WhereClause(startDate, endDate),
     params |-> <<>>]

-----------------------------------------------------------------------------
(* The backing store: how PostgreSQL reads the WHERE clause it is sent.    *)
(* A condition is a disjunction (split at OR) of atoms; an atom is TRUE, a *)
(* comparison of created_at with a quoted literal cast to timestamptz, or  *)
(* a BETWEEN of two such literals.  Anything else is a syntax error, and a *)
(* literal that is no timestamp is a cast error: both fail the query.      *)

TsDomain == 0..(MaxRows + 1)

IsTimestamp(lex) == \E n \in TsDomain : ToString(n) = lex

TsValue(lex) == CHOOSE n \in TsDomain : ToString(n) = lex

RECURSIVE SplitOr(_)
SplitOr(toks) ==
    IF \A i \in 1..Len(toks) : toks[i] # "OR" THEN <<toks>>
    ELSE LET k == CHOOSE i \in 1..Len(toks) :
                      toks[i] = "OR" /\ \A j \in 1..(i - 1) : toks[j] # "OR"
         IN  <<SubSeq(toks, 1, k - 1)>> \o SplitOr(SubSeq(toks, k + 1, Len(toks)))

IsCast(a, i) == a[i] = "'" /\ IsTimestamp(a[i + 1]) /\ a[i + 2] = "'" /\ a[i + 3] = "::timestamptz"

AtomOk(a) ==
    \/ a = <<"TRUE">>
    \/ Len(a) = 6 /\ a[1] = "created_at" /\ a[2] \in {">=", "<="} /\ IsCast(a, 3)
    \/ Len(a) = 11 /\ a[1] = "created_at" /\ a[2] = "BETWEEN" /\ IsCast(a, 3)
          /\ a[7] = "AND" /\ IsCast(a, 8)

AtomHolds(a, ts) ==
    IF a = <<"TRUE">> THEN TRUE
    ELSE IF a[2] = ">=" THEN ts >= TsValue(a[4])
    ELSE IF a[2] = "<=" THEN ts <= TsValue(a[4])
    ELSE TsValue(a[4]) <= ts /\ ts <= TsValue(a[9])

Atoms(where) == SplitOr(Tail(where))

WhereOk(where) ==
    IF where = <<>> THEN TRUE
    ELSE /\ Head(where) = "WHERE"
         /\ \A i \in 1..Len(Atoms(where)) : AtomOk(Atoms(where)[i])

Selected(where, rows) ==
    IF where = <<>> THEN rows
    ELSE {ts \in rows : \E i \in 1..Len(Atoms(where)) : AtomHolds(Atoms(where)[i], ts)}

\* ORDER BY created_at ASC
RECURSIVE SortAsc(_)
SortAsc(S) ==
    IF S = {} THEN <<>>
    ELSE LET m == CHOOSE x \in S : \A y \in S : x <= y
         IN  <<m>> \o SortAsc(S \ {m})

\* LIMIT l OFFSET o
LimitOffset(rows, l, o) == SubSeq(rows, o + 1, Min(o + l, Len(rows)))

\* rows of the data query; the total of the count query (a digit string).
RunQuery(q, rows) == LimitOffset(SortAsc(Selected(q.where, rows)), q.limit, q.offset)

RunCount(q, rows) == DigitsOf(Cardinality(Selected(q.where, rows)))

-----------------------------------------------------------------------------
(* The handler of GET /api/commits.                                        *)

ValidateNoCap(page, limit) ==
    IF page < 1 \/ limit < 1 THEN "Page and limit must be positive integers"
    ELSE "ok"

\* Input validation: "ok" or the error string of the 400 response.
Validate(page, limit) ==
    IF page < 1 \/ limit < 1 THEN "Page and limit must be positive integers"
    ELSE IF limit > MaxLimit THEN "Maximum limit is 100 records per request"
    ELSE "ok"

FloorDiv(a, b) == a \div b

\* Math.ceil(a / b) for a >= 0, b >= 1
CeilDiv(a, b) == IF a % b = 0 THEN a \div b ELSE (a \div b) + 1

\* startDate || null
OrNull(s) == IF Truthy(s) THEN s ELSE Null

NoQuery == [where |-> <<>>, params |-> <<>>]
NoCall == [state |-> "none", q |-> NoQuery, rows |-> <<>>, error |-> ""]
NoResponse == [sent |-> 0, status |-> 0, body |-> [success |-> FALSE]]

BadRequest(r, msg) ==
    [sent   |-> r.sent + 1,
     status |-> 400,
     body   |-> [success |-> FALSE, error |-> msg]]

\* the catch block: message only when NODE_ENV is development
ServerError(r, env, msg) ==
    [sent   |-> r.sent + 1,
     status |-> 500,
     body   |-> IF env = "development"
                THEN [success |-> FALSE, error |-> "Internal server error", message |-> msg]
                ELSE [success |-> FALSE, error |-> "Internal server error"]]

\* the response assembled after both results are in
Success(r, rq, commitsResult, countResult) ==
    LET totalCount == ParseInt(countResult).val
        totalPages == CeilDiv(totalCount, rq.limit)
    IN  [sent   |-> r.sent + 1,
         status |-> 200,
         body   |-> [success    |-> TRUE,
                     data       |-> commitsResult,
                     pagination |-> [total       |-> totalCount,
                                     page        |-> rq.page,
                                     limit       |-> rq.limit,
                                     totalPages  |-> totalPages,
                                     hasNextPage |-> rq.page < totalPages,
                                     hasPrevPage |-> rq.page > 1],
                     filters    |-> [startDate |-> OrNull(rq.startDate),
                                     endDate   |-> OrNull(rq.endDate)]]]

\* settles on the data query alone, whatever became of the count query
PromiseAllDataOnly(d, c) ==
    IF d.state = "rejected" THEN "rejected"
    ELSE IF d.state = "fulfilled" /\ c.state \in {"fulfilled", "rejected"} THEN "fulfilled"
    ELSE "pending"

\* settles as soon as either query is fulfilled
PromiseAllAny(d, c) ==
    IF d.state = "rejected" \/ c.state = "rejected" THEN "rejected"
    ELSE IF d.state = "fulfilled" \/ c.state = "fulfilled" THEN "fulfilled"
    ELSE "pending"

\* Promise.all of the two pool.query promises
PromiseAll(d, c) ==
    IF d.state = "rejected" \/ c.state = "rejected" THEN "rejected"
    ELSE IF d.state = "fulfilled" /\ c.state = "fulfilled" THEN "fulfilled"
    ELSE "pending"

\* The code after the await: runs as soon as Promise.all settles.
\* `err` is the rejection that settled it.
AfterAwait(r, rq, env, d, c, err) ==
    IF PromiseAll(d, c) = "fulfilled" THEN Success(r, rq, d.rows, c.rows)
    ELSE ServerError(r, env, err)

PoolEndedMsg == "Cannot use a pool after calling end on the pool"

-----------------------------------------------------------------------------
(* Requests the model sends.                                               *)

RawPages == {Undefined, <<"0">>, <<"1">>, <<"2">>, <<"3">>, <<"-", "1">>, <<"2", "x">>}

RawLimits == {Undefined, <<"0">>, <<"2">>, <<"1", "0", "0">>, <<"1", "0", "1">>,
              <<"-", "1">>}

\* a date whose text closes the quote and adds a disjunct
Injection == <<"5", "'", "::timestamptz", "OR", "TRUE", "OR", "created_at", ">=", "'", "5">>

StartDates == {Undefined, <<>>, <<"5">>, <<"junk">>, Injection}

EndDates == {Undefined, <<"8">>}

-----------------------------------------------------------------------------
(* State machine.                                                          *)

Init ==
    /\ table \in {1..n : n \in 0..MaxRows}
    /\ nodeEnv \in {"development", "production"}
    /\ pool = [ending |-> FALSE, ended |-> FALSE, active |-> 1]
    /\ testConn = "connecting"
    /\ exited = FALSE
    /\ req = [state |-> "idle", rawPage |-> Undefined, rawLimit |-> Undefined,
              startDate |-> Undefined, endDate |-> Undefined,
              page |-> DefaultPage, limit |-> DefaultLimit]
    /\ dataQ = NoCall
    /\ countQ = NoCall
    /\ res = NoResponse
    /\ hist = [issued |-> 0, first |-> "none", afterEnd |-> FALSE]

\* pool.end(cb) has run and the last client is gone: cb logs and calls
\* process.exit(0).
Exit ==
    /\ exited' = TRUE
    /\ pool' = [pool EXCEPT !.ending = TRUE, !.ended = TRUE, !.active = 0]

\* A client of the pool is released (or its connection attempt is over).
\* While the pool is ending, the release of the last client ends the pool
\* and the end callback exits the process before anything else runs.
LastRelease == pool.ending /\ pool.active = 1

Release == pool' = [pool EXCEPT !.active = pool.active - 1]

\* app.get('/api/commits', ...) up to the await.  A behaviour follows one
\* request: the handler keeps no state from one request to the next.
Handle(rawPage, rawLimit, startDate, endDate) ==
    /\ ~exited
    /\ req.state = "idle"
    /\ LET page  == OrDefault(ParseInt(rawPage), DefaultPage)
           limit == OrDefault(ParseInt(rawLimit), DefaultLimit)
           rq    == [state |-> "awaiting", rawPage |-> rawPage, rawLimit |-> rawLimit,
                     startDate |-> startDate, endDate |-> endDate,
                     page |-> page, limit |-> limit]
           q     == Query(page, limit, startDate, endDate)
           cq    == CountQuery(startDate, endDate)
           h     == [hist EXCEPT !.first = "none", !.afterEnd = pool.ending]
       IN  IF Validate(page, limit) # "ok"
           THEN /\ req' = [rq EXCEPT !.state = "done"]
                /\ res' = BadRequest(NoResponse, Validate(page, limit))
                /\ dataQ' = NoCall
                /\ countQ' = NoCall
                /\ hist' = [h EXCEPT !.issued = 0]
                /\ pool' = pool
           ELSE IF pool.ending
           THEN \* pool.query rejects both calls at once
                /\ req' = [rq EXCEPT !.state = "done"]
                /\ dataQ' = [state |-> "rejected", q |-> q, rows |-> <<>>, error |-> PoolEndedMsg]
                /\ countQ' = [state |-> "rejected", q |-> cq, rows |-> <<>>, error |-> PoolEndedMsg]
                /\ res' = AfterAwait(NoResponse, rq, nodeEnv, dataQ', countQ', PoolEndedMsg)
                /\ hist' = [h EXCEPT !.issued = 2]
                /\ pool' = pool
           ELSE /\ req' = rq
                /\ dataQ' = [state |-> "pending", q |-> q, rows |-> <<>>, error |-> ""]
                /\ countQ' = [state |-> "pending", q |-> cq, rows |-> <<>>, error |-> ""]
                /\ res' = NoResponse
                /\ hist' = [h EXCEPT !.issued = 2]
                /\ pool' = [pool EXCEPT !.active = pool.active + 2]
    /\ UNCHANGED <<table, nodeEnv, testConn, exited>>

\* The promise of one query settles; if that settles Promise.all, the rest
\* of the handler runs.
Settle(d, c, who, err) ==
    /\ dataQ' = d
    /\ countQ' = c
    /\ Release
    /\ exited' = exited
    /\ hist' = IF hist.first = "none" THEN [hist EXCEPT !.first = who] ELSE hist
    /\ IF req.state = "awaiting" /\ PromiseAll(d, c) # "pending"
       THEN /\ res' = AfterAwait(res, req, nodeEnv, d, c, err)
            /\ req' = [req EXCEPT !.state = "done"]
       ELSE UNCHANGED <<res, req>>

\* pool.query(query, queryParams) completes.
DataQueryDone(ok) ==
    /\ ~exited
    /\ dataQ.state = "pending"
    /\ ok => WhereOk(dataQ.q.where)
    /\ IF LastRelease
       THEN Exit /\ UNCHANGED <<dataQ, countQ, res, req, hist>>
       ELSE IF ok
       THEN Settle([dataQ EXCEPT !.state = "fulfilled", !.rows = RunQuery(dataQ.q, table)],
                   countQ, "data", "")
       ELSE Settle([dataQ EXCEPT !.state = "rejected", !.error = "query failed"],
                   countQ, "data", "query failed")
    /\ UNCHANGED <<table, nodeEnv, testConn>>

\* pool.query(countQuery, countQueryParams) completes.
CountQueryDone(ok) ==
    /\ ~exited
    /\ countQ.state = "pending"
    /\ ok => WhereOk(countQ.q.where)
    /\ IF LastRelease
       THEN Exit /\ UNCHANGED <<dataQ, countQ, res, req, hist>>
       ELSE IF ok
       THEN Settle(dataQ,
                   [countQ EXCEPT !.state = "fulfilled", !.rows = RunCount(countQ.q, table)],
                   "count", "")
       ELSE Settle(dataQ,
                   [countQ EXCEPT !.state = "rejected", !.error = "query failed"],
                   "count", "query failed")
    /\ UNCHANGED <<table, nodeEnv, testConn>>

\* The callback of the startup pool.connect: the connection attempt is over,
\* with an error (logged) or with a client that is released at once.
TestConnDone ==
    /\ ~exited
    /\ testConn = "connecting"
    /\ testConn' = "done"
    /\ IF LastRelease THEN Exit ELSE Release /\ exited' = exited
    /\ UNCHANGED <<table, nodeEnv, req, dataQ, countQ, res, hist>>

\* process.on('SIGINT'): pool.end(cb).  With no client checked out the pool
\* ends at once; a second pool.end calls cb with an error, and cb exits.
Sigint ==
    /\ ~exited
    /\ IF pool.ending \/ pool.active = 0
       THEN Exit
       ELSE pool' = [pool EXCEPT !.ending = TRUE] /\ exited' = exited
    /\ UNCHANGED <<table, nodeEnv, testConn, req, dataQ, countQ, res, hist>>

Next ==
    \/ \E rp \in RawPages, rl \in RawLimits, sd \in StartDates, ed \in EndDates :
           Handle(rp, rl, sd, ed)
    \/ \E ok \in BOOLEAN : DataQueryDone(ok)
    \/ \E ok \in BOOLEAN : CountQueryDone(ok)
    \/ TestConnDone
    \/ Sigint

Spec == Init /\ [][Next]_vars

-----------------------------------------------------------------------------
(* Properties.                                                             *)

Answered200 == res.status = 200

\* the value of a date parameter, when it is a timestamp
IsDate(d) == Len(d) = 1 /\ IsTimestamp(d[1])

\* a page or limit parameter that reads as an integer below 1
BelowOne(raw) == ~ParseInt(raw).nan /\ ParseInt(raw).val < 1

\* C1: a 200 response carries at most `limit` records, and exactly `limit`
\* unless the page is the last one (page >= totalPages).
C1_PageSize ==
    Answered200 =>
        LET p == res.body.pagination
        IN  /\ Len(res.body.data) <= p.limit
            /\ p.page < p.totalPages => Len(res.body.data) = p.limit

\* C2: page p holds the matching records of rank (p-1)*limit+1 through
\* min(p*limit, total), in ascending created_at order.
C2_PageContents ==
    Answered200 =>
        LET p       == res.body.pagination
            matched == SortAsc(Selected(dataQ.q.where, table))
        IN  res.body.data =
                SubSeq(matched, (p.page - 1) * p.limit + 1, Min(p.page * p.limit, Len(matched)))

\* C3: a request whose page or limit parameter is 0 (or any value below 1)
\* is answered 400 with success:false, never 200.  (A response that follows
\* a failed query is left aside: the claim fails without it.)
C3_BelowOneRejected ==
    (/\ req.state = "done"
     /\ BelowOne(req.rawPage) \/ BelowOne(req.rawLimit)
     /\ PromiseAll(dataQ, countQ) # "rejected")
        => (res.status = 400 /\ res.body.success = FALSE)

\* the WHERE clause with the dates as placeholders
BoundWhere(hasStart, hasEnd) ==
    IF hasStart /\ hasEnd
    THEN <<"WHERE", "created_at", "BETWEEN", "$1", "::timestamptz", "AND", "$2", "::timestamptz">>
    ELSE IF hasStart THEN <<"WHERE", "created_at", ">=", "$1", "::timestamptz">>
    ELSE IF hasEnd THEN <<"WHERE", "created_at", "<=", "$1", "::timestamptz">>
    ELSE <<>>

BoundParams(startDate, endDate) ==
    (IF Truthy(startDate) THEN <<startDate>> ELSE <<>>)
        \o (IF Truthy(endDate) THEN <<endDate>> ELSE <<>>)

\* C4: the date values reach the store only as bound parameters: the text
\* of the data query and of the count query depends on which dates are
\* given, not on their values.
C4_DatesAreBound ==
    hist.issued > 0 =>
        /\ dataQ.q.where = BoundWhere(Truthy(req.startDate), Truthy(req.endDate))
        /\ countQ.q.where = BoundWhere(Truthy(req.startDate), Truthy(req.endDate))
        /\ dataQ.q.params = BoundParams(req.startDate, req.endDate)
        /\ countQ.q.params = BoundParams(req.startDate, req.endDate)

\* C5: in a 200 response totalPages is the least n with n * limit >= total,
\* hasNextPage = (page < totalPages) and hasPrevPage = (page > 1), for the
\* effective page and limit of the request.
C5_Pagination ==
    Answered200 =>
        LET p == res.body.pagination
        IN  /\ p.page = req.page /\ p.limit = req.limit
            /\ p.page >= 1 /\ p.limit >= 1 /\ p.limit <= 100 /\ p.total >= 0
            /\ p.totalPages * p.limit >= p.total
            /\ (p.totalPages - 1) * p.limit < p.total
            /\ p.hasNextPage = (p.page < p.totalPages)
            /\ p.hasPrevPage = (p.page > 1)

\* C5 witness: a 200 response for a page past the end of a non-empty result.
C5_PastTheEnd ==
    /\ Answered200
    /\ res.body.pagination.page > res.body.pagination.totalPages
    /\ res.body.pagination.total > res.body.pagination.limit
    /\ res.body.pagination.hasPrevPage /\ ~res.body.pagination.hasNextPage

\* the filter of the claim: start <= created_at <= end, each bound applying
\* when its date is given
InFilter(ts, startDate, endDate) ==
    /\ Truthy(startDate) => (IsDate(startDate) /\ TsValue(startDate[1]) <= ts)
    /\ Truthy(endDate) => (IsDate(endDate) /\ ts <= TsValue(endDate[1]))

\* C6: the data query and the count query use the same filter; every record
\* of `data` satisfies it and pagination.total counts the records of the
\* table that satisfy it.
C6_Filter ==
    Answered200 =>
        /\ dataQ.q.where = countQ.q.where
        /\ \A i \in 1..Len(res.body.data) :
               InFilter(res.body.data[i], req.startDate, req.endDate)
        /\ res.body.pagination.total =
               Cardinality({ts \in table : InFilter(ts, req.startDate, req.endDate)})

\* C7: once a query of the request has failed, the request has exactly one
\* response, 500 with success:false and "Internal server error", without
\* data or pagination; no query was issued again.
C7_FailureIs500 ==
    (dataQ.state = "rejected" \/ countQ.state = "rejected") =>
        /\ res.sent = 1
        /\ res.status = 500
        /\ res.body.success = FALSE
        /\ res.body.error = "Internal server error"
        /\ {"data", "pagination"} \cap DOMAIN res.body = {}
        /\ hist.issued = 2

\* C7 witness: the count query failed after the data query had succeeded.
C7_CountFailedAfterData ==
    /\ dataQ.state = "fulfilled" /\ countQ.state = "rejected"
    /\ hist.first = "data"
    /\ res.status = 500

\* C8: a request answered 400 has issued no query; every issued query has a
\* limit in 1..100 and a page >= 1; limit=101 is answered 400 without a query.
C8_ValidationFirst ==
    /\ res.status = 400 => (hist.issued = 0 /\ dataQ.state = "none" /\ countQ.state = "none")
    /\ hist.issued > 0 =>
           (dataQ.q.limit \in 1..100 /\ dataQ.q.limit = req.limit /\ req.page >= 1)
    /\ (req.state # "idle" /\ req.rawLimit = <<"1", "0", "1">>) =>
           (res.status = 400 /\ hist.issued = 0)

\* C8 witness: limit=101 was rejected.
C8_Limit101Rejected ==
    /\ req.rawLimit = <<"1", "0", "1">>
    /\ res.status = 400 /\ res.body.success = FALSE
    /\ hist.issued = 0

\* C9: the two queries are issued together; a 200 response is sent only when
\* both are fulfilled, and its content is that of the two results, whichever
\* finished first.
C9_BothBeforeResponse ==
    /\ (dataQ.state = "none") <=> (countQ.state = "none")
    /\ req.state = "awaiting" =>
           (dataQ.state # "none" /\ PromiseAll(dataQ, countQ) = "pending")
    /\ Answered200 =>
           /\ dataQ.state = "fulfilled" /\ countQ.state = "fulfilled"
           /\ res.sent = 1
           /\ res.body.data = RunQuery(dataQ.q, table)
           /\ res.body.pagination.total = Cardinality(Selected(countQ.q.where, table))

\* C9 witness: a 200 response where the count query finished first.
C9_CountFirst ==
    /\ Answered200
    /\ hist.first = "count"
    /\ Len(res.body.data) > 0

\* C10: after SIGINT no request is accepted: no request is handled against
\* a pool that pool.end has been called on.
C10_NoRequestAfterSigint ==
    req.state # "idle" => ~hist.afterEnd

====
